---- MODULE Spec2Model ----
(***************************************************************************)
(* A model of the max112x driver (MAX11214 24-bit delta-sigma ADC): the    *)
(* command encoder, the bitflag register codecs, the mode type-state       *)
(* handle and every public operation of the handle, run against an SPI     *)
(* transport whose exchanges may fail and a device that stores its control *)
(* registers.                                                              *)
(***************************************************************************)
EXTENDS Integers, Sequences, FiniteSets, TLC

VARIABLES
  handle,   \* mode tag of the live Max11214 handle, or "None" when there is none
  dev,      \* the chip: its registers and what it answers on the bus
  sched,    \* the transport: outcomes of its coming exchanges
  last      \* the most recent operation: name, argument, exchanges issued, result

vars == <<handle, dev, sched, last>>

(***************************************************************************)
(* Bounds of the model.                                                    *)
(***************************************************************************)
\* conversion rates 0..MaxRate are requested by start_conversion
MaxRate == 1
\* the first MaxPga + 1 PGA gains are requested by set_pga
MaxPga == 0
\* transport error values 1..NumErrs
NumErrs == 2
\* a transport schedule fixes the outcome of as many exchanges as the longest
\* operation issues
MaxSched == Len(<<"register read", "register write", "command">>)

(***************************************************************************)
(* Bit arithmetic on unsigned integers (bitflags: union, difference, ...). *)
(***************************************************************************)
RECURSIVE BitAnd(_, _)
BitAnd(a, b) ==
  IF a = 0 \/ b = 0 THEN 0
  ELSE (a % 2) * (b % 2) + 2 * BitAnd(a \div 2, b \div 2)

union(a, b) == a + b - BitAnd(a, b)
difference(a, b) == a - BitAnd(a, b)
intersection(a, b) == BitAnd(a, b)
contains(a, b) == BitAnd(a, b) = b
\* Flags::set(flag, value)
set(a, b, value) == IF value THEN union(a, b) ELSE difference(a, b)
\* u8 << 1
shl1_u8(x) == (2 * x) % 256

Byte == 0..255

(***************************************************************************)
(* command.rs: the command byte.                                           *)
(***************************************************************************)
START == 128
MODE == 64
CAL == 32
IMPD == 16
RW == 1
\* every bit of the byte is a defined Command flag
CommandAll == 255

CommandFromBitsTruncate(bits) == BitAnd(bits, CommandAll)

CommandNew == START

conversion(rate) == union(CommandNew, CommandFromBitsTruncate(rate))

register_write(reg) ==
  union(union(CommandNew, MODE), CommandFromBitsTruncate(shl1_u8(reg)))

\* variant: the read command without the MODE flag
register_read_without_mode(reg) ==
  union(union(CommandNew, CommandFromBitsTruncate(shl1_u8(reg))), RW)

register_read(reg) ==
  union(union(union(CommandNew, MODE), CommandFromBitsTruncate(shl1_u8(reg))), RW)

\* variant: the power-down command as a register-access byte
power_down_register_mode == union(CommandNew, MODE)

\* Command::power_down(): the byte the crate's doc-test expects on the bus
power_down == union(CommandNew, IMPD)

\* Command::calibrate(): start marker plus the CAL bit of conversion mode
calibrate == union(CommandNew, CAL)

(***************************************************************************)
(* register.rs: register addresses and flags.  A bitflags register keeps   *)
(* only its defined bits when decoded (from_bits_truncate).                *)
(***************************************************************************)
StatAddr == 0
Ctrl1Addr == 1
Ctrl2Addr == 2
Ctrl5Addr == 5
Data24Addr == 6
SocAdcAddr == 21
SgcAdcAddr == 22
ScocAdcAddr == 23
ScgcAdcAddr == 24

CONTSC == 1
SCYCLE == 2
FORMAT == 4
UB == 8
PD0 == 16
PD1 == 32
SYNC == 64
EXTCK == 128
Ctrl1All == CONTSC + SCYCLE + FORMAT + UB + PD0 + PD1 + SYNC + EXTCK

PGAG == 7
PGAEN == 8
LPMODE == 16
BUFEN == 32
DGAIN == 192
Ctrl2All == PGAG + PGAEN + LPMODE + BUFEN + DGAIN

CAL1 == 128
CAL0 == 64
NOSYSG == 8
NOSYSO == 4
NOSCG == 2
NOSCO == 1
Ctrl5CAL == CAL1 + CAL0
Ctrl5All == CAL1 + CAL0 + NOSYSG + NOSYSO + NOSCG + NOSCO

INRESET == 32768
ERROR == 16384
PDSTAT1 == 2048
PDSTAT0 == 1024
RDERR == 512
AOR == 256
STATRATE == 240
SYSGOR == 8
DOR == 4
MSTAT == 2
RDY == 1
PDSTAT == PDSTAT1 + PDSTAT0
StatAll ==
  INRESET + ERROR + PDSTAT + RDERR + AOR + STATRATE + SYSGOR + DOR + MSTAT + RDY

\* the set of defined bits of the bitflags register at an address
RegAll(addr) ==
  CASE addr = Ctrl1Addr -> Ctrl1All
    [] addr = Ctrl2Addr -> Ctrl2All
    [] addr = Ctrl5Addr -> Ctrl5All
    [] addr = StatAddr -> StatAll

\* variant: every raw bit is kept (from_bits_retain)
from_reg_retains(addr, raw) == raw

\* ReadReg::from_reg for a bitflags register
from_reg(addr, raw) == BitAnd(raw, RegAll(addr))

\* WriteReg::to_reg
to_reg(reg) == reg

(***************************************************************************)
(* The chip behind the transport.  It stores what is written to its        *)
(* control registers and returns it on read; a command byte changes its    *)
(* power state as the register documentation describes (PD[1:0] = 10       *)
(* standby, 01 sleep), and the status register reports that state in       *)
(* PDSTAT (00 conversion, 01 power-down, 10 standby).                      *)
(***************************************************************************)
\* register address carried by a register-access command byte (RS4..RS0)
CmdAddr(cmd) == (cmd \div 2) % 32

SetPdstat(d, code) == [d EXCEPT !.stat = difference(@, PDSTAT) + code]

DevRegWrite(d, addr, value) ==
  CASE addr = Ctrl1Addr -> [d EXCEPT !.ctrl1 = value]
    [] addr = Ctrl2Addr -> [d EXCEPT !.ctrl2 = value]
    [] addr = Ctrl5Addr -> [d EXCEPT !.ctrl5 = value]
    [] OTHER -> d

\* a command byte in conversion mode (MODE clear)
DevCommand(d, cmd) ==
  IF contains(cmd, IMPD)
  THEN (CASE BitAnd(d.ctrl1, PD0 + PD1) = PD1 -> SetPdstat(d, PDSTAT1)
          [] BitAnd(d.ctrl1, PD0 + PD1) = PD0 -> SetPdstat(d, PDSTAT0)
          [] OTHER -> d)
  ELSE IF contains(cmd, CAL) THEN d
  ELSE SetPdstat(d, 0)

\* the bytes of one successful write reach the chip
DevWrite(d, bytes) ==
  IF contains(bytes[1], MODE)
  THEN (IF Len(bytes) >= 2 THEN DevRegWrite(d, CmdAddr(bytes[1]), bytes[2]) ELSE d)
  ELSE DevCommand(d, bytes[1])

\* the value bytes the chip answers to a register read
DevRead(d, addr) ==
  CASE addr = Ctrl1Addr -> <<d.ctrl1>>
    [] addr = Ctrl2Addr -> <<d.ctrl2>>
    [] addr = Ctrl5Addr -> <<d.ctrl5>>
    [] addr = StatAddr -> <<d.stat \div 256, d.stat % 256>>
    [] OTHER -> d.r24

\* the chip's actual power state, as its status register reports it
ChipState(d) ==
  CASE BitAnd(d.stat, PDSTAT) = 0 -> "Conversion"
    [] BitAnd(d.stat, PDSTAT) = PDSTAT0 -> "PowerDown"
    [] BitAnd(d.stat, PDSTAT) = PDSTAT1 -> "Standby"
    [] OTHER -> "Reserved"

(***************************************************************************)
(* The SPI transport (embedded-hal SpiDevice).  An operation runs in a     *)
(* context: the exchanges issued so far, the chip, and the outcomes the    *)
(* transport gives the coming exchanges (0 = success, e > 0 = the error    *)
(* value e; past the end of the schedule every exchange succeeds).         *)
(***************************************************************************)
Errs == 1..NumErrs
Outcomes == {0} \cup Errs

Ok(v) == [tag |-> "Ok", val |-> v, err |-> 0]
\* Error::Spi(e)
Err(e) == [tag |-> "Err", val |-> 0, err |-> e]

Xfer(kind, out, in, delay, res) ==
  [kind |-> kind, out |-> out, in |-> in, delay |-> delay, res |-> res]

Ctx(d, outs) ==
  [log |-> <<>>, dev |-> d, outs |-> outs, res |-> 0, buf |-> <<>>,
   ret |-> Ok(0)]

NextOutcome(c) == IF c.outs = <<>> THEN 0 ELSE Head(c.outs)
RestOutcomes(c) == IF c.outs = <<>> THEN <<>> ELSE Tail(c.outs)

\* SpiDevice::write
spi_write(c, bytes) ==
  LET o == NextOutcome(c) IN
  [c EXCEPT !.log = Append(@, Xfer("write", bytes, <<>>, 0, o)),
            !.dev = IF o = 0 THEN DevWrite(@, bytes) ELSE @,
            !.outs = RestOutcomes(c),
            !.res = o]

\* SpiDevice::transfer_in_place: the buffer is overwritten by the response
spi_transfer_in_place(c, buf) ==
  LET o == NextOutcome(c)
      resp == <<c.dev.echo>> \o DevRead(c.dev, CmdAddr(buf[1]))
  IN
  [c EXCEPT !.log = Append(@, Xfer("transfer_in_place", buf,
                                   IF o = 0 THEN resp ELSE <<>>, 0, o)),
            !.outs = RestOutcomes(c),
            !.res = o,
            !.buf = IF o = 0 THEN resp ELSE buf]

\* SpiDevice::transaction(&mut [Operation::Write(bytes), Operation::DelayNs(ns)])
spi_transaction(c, bytes, ns) ==
  LET o == NextOutcome(c) IN
  [c EXCEPT !.log = Append(@, Xfer("transaction", bytes, <<>>, ns, o)),
            !.dev = IF o = 0 THEN DevWrite(@, bytes) ELSE @,
            !.outs = RestOutcomes(c),
            !.res = o]

(***************************************************************************)
(* lib.rs: the private register and command helpers.                       *)
(***************************************************************************)
write_cmd(c, cmd) ==
  LET c1 == spi_write(c, <<cmd>>) IN
  IF c1.res # 0 THEN [c1 EXCEPT !.ret = Err(c1.res)]
  ELSE [c1 EXCEPT !.ret = Ok(0)]

\* variant: the outcome of the write is dropped instead of propagated by `?`
write_reg_u8_unchecked(c, addr, reg) ==
  [spi_write(c, <<register_write(addr), to_reg(reg)>>) EXCEPT !.ret = Ok(0)]

write_reg_u8(c, addr, reg) ==
  LET c1 == spi_write(c, <<register_write(addr), to_reg(reg)>>) IN
  IF c1.res # 0 THEN [c1 EXCEPT !.ret = Err(c1.res)]
  ELSE [c1 EXCEPT !.ret = Ok(0)]

read_reg_u8(c, addr) ==
  LET c1 == spi_transfer_in_place(c, <<register_read(addr), 0>>) IN
  IF c1.res # 0 THEN [c1 EXCEPT !.ret = Err(c1.res)]
  ELSE [c1 EXCEPT !.ret = Ok(from_reg(addr, c1.buf[2]))]

(***************************************************************************)
(* lib.rs: the closures the read-modify-write operations pass, by          *)
(* operation.                                                              *)
(***************************************************************************)
\* variant: the register is replaced by the standby code instead of modified
into_standby_f_overwrites(ctrl1) == PD1

\* variant: PD1 is set but PD0 is left as read
into_standby_f_keeps_pd0(ctrl1) == union(ctrl1, PD1)

into_standby_f(ctrl1) == difference(union(ctrl1, PD1), PD0)

\* variant: PD0 is set but PD1 is left as read
into_sleep_f_keeps_pd1(ctrl1) == union(ctrl1, PD0)

into_sleep_f(ctrl1) == union(difference(ctrl1, PD1), PD0)

\* variant: SCYCLE follows `continuous` instead of its negation
start_conversion_f_scycle_inverted(ctrl1, continuous) ==
  difference(difference(set(ctrl1, SCYCLE, continuous), PD1), PD0)

\* variant: the power bits are left as read
start_conversion_f_keeps_power(ctrl1, continuous) ==
  set(ctrl1, SCYCLE, ~continuous)

start_conversion_f(ctrl1, continuous) ==
  difference(difference(set(ctrl1, SCYCLE, ~continuous), PD1), PD0)

set_clock_f(ctrl1, clock) ==
  CASE clock = "External" -> union(ctrl1, EXTCK)
    [] clock = "Internal" -> difference(ctrl1, EXTCK)

set_format_f(ctrl1, format) ==
  CASE format = "OffsetBinary" -> union(ctrl1, FORMAT)
    [] format = "TwosComplement" -> difference(ctrl1, FORMAT)

PgaNames == <<"X1", "X2", "X4", "X8", "X16", "X32", "X64", "X128">>

PgaBits(pga) ==
  CASE pga = "X1" -> 0
    [] pga = "X2" -> 1
    [] pga = "X4" -> 2
    [] pga = "X8" -> 3
    [] pga = "X16" -> 4
    [] pga = "X32" -> 5
    [] pga = "X64" -> 6
    [] pga = "X128" -> 7

\* variant: the gain bits already in the register are not cleared first
set_pga_f_keeps_gain(ctrl2, pga) ==
  IF pga # "None"
  THEN union(union(ctrl2, PGAEN), from_reg(Ctrl2Addr, PgaBits(pga)))
  ELSE difference(ctrl2, PGAEN)

set_pga_f(ctrl2, pga) ==
  IF pga # "None"
  THEN union(difference(union(ctrl2, PGAEN), PGAG), from_reg(Ctrl2Addr, PgaBits(pga)))
  ELSE difference(ctrl2, PGAEN)

Calibrations ==
  {"SelfCalibration", "SystemOffsetCalibration", "SystemFullScaleCalibration"}

self_calibrate_f(ctrl5, calibration) ==
  CASE calibration = "SelfCalibration" -> difference(ctrl5, Ctrl5CAL)
    [] calibration = "SystemOffsetCalibration" -> union(difference(ctrl5, CAL1), CAL0)
    [] calibration = "SystemFullScaleCalibration" -> difference(union(ctrl5, CAL1), CAL0)

\* variant: every calibration waits the system-calibration time
self_calibrate_duration_always_100ms(calibration) == 100000000

\* the delay (ns) the self_calibrate closure stores in `duration`
self_calibrate_duration(calibration) ==
  CASE calibration = "SelfCalibration" -> 200000000
    [] calibration = "SystemOffsetCalibration" -> 100000000
    [] calibration = "SystemFullScaleCalibration" -> 100000000

NoArg ==
  [rate |-> 0, continuous |-> FALSE, clock |-> "-", format |-> "-",
   pga |-> "-", calibration |-> "-"]

\* f(reg) of the operation op called with argument arg
Closure(op, arg, reg) ==
  CASE op = "into_standby" -> into_standby_f(reg)
    [] op = "into_sleep" -> into_sleep_f(reg)
    [] op = "start_conversion" -> start_conversion_f(reg, arg.continuous)
    [] op = "set_clock" -> set_clock_f(reg, arg.clock)
    [] op = "set_format" -> set_format_f(reg, arg.format)
    [] op = "set_pga" -> set_pga_f(reg, arg.pga)
    [] op = "self_calibrate" -> self_calibrate_f(reg, arg.calibration)

\* variant: the register is written back without comparing it with the read
modify_reg_u8_always_writes(c, addr, op, arg) ==
  LET c1 == read_reg_u8(c, addr) IN
  IF c1.ret.tag = "Err" THEN c1
  ELSE write_reg_u8(c1, addr, Closure(op, arg, c1.ret.val))

modify_reg_u8(c, addr, op, arg) ==
  LET c1 == read_reg_u8(c, addr) IN
  IF c1.ret.tag = "Err" THEN c1
  ELSE LET reg == c1.ret.val
           new_reg == Closure(op, arg, reg)
       IN IF new_reg # reg
          THEN write_reg_u8(c1, addr, new_reg)
          ELSE [c1 EXCEPT !.ret = Ok(0)]

(***************************************************************************)
(* lib.rs: the public operations, each from a context to the context it    *)
(* leaves, with the value it returns in ret.                               *)
(***************************************************************************)
\* variant: the power-down command is sent before CTRL1 is modified
into_standby_command_first(c) ==
  LET c1 == write_cmd(c, power_down) IN
  IF c1.ret.tag = "Err" THEN c1
  ELSE modify_reg_u8(c1, Ctrl1Addr, "into_standby", NoArg)

into_standby(c) ==
  LET c1 == modify_reg_u8(c, Ctrl1Addr, "into_standby", NoArg) IN
  IF c1.ret.tag = "Err" THEN c1 ELSE write_cmd(c1, power_down)

into_sleep(c) ==
  LET c1 == modify_reg_u8(c, Ctrl1Addr, "into_sleep", NoArg) IN
  IF c1.ret.tag = "Err" THEN c1 ELSE write_cmd(c1, power_down)

start_conversion(c, arg) ==
  LET c1 == modify_reg_u8(c, Ctrl1Addr, "start_conversion", arg) IN
  IF c1.ret.tag = "Err" THEN c1 ELSE write_cmd(c1, conversion(arg.rate))

set_clock(c, arg) == modify_reg_u8(c, Ctrl1Addr, "set_clock", arg)

set_format(c, arg) == modify_reg_u8(c, Ctrl1Addr, "set_format", arg)

set_pga(c, arg) == modify_reg_u8(c, Ctrl2Addr, "set_pga", arg)

self_calibrate(c, arg) ==
  LET c1 == modify_reg_u8(c, Ctrl5Addr, "self_calibrate", arg) IN
  IF c1.ret.tag = "Err" THEN c1
  ELSE LET c2 == spi_transaction(c1, <<calibrate>>,
                                 self_calibrate_duration(arg.calibration))
       IN IF c2.res # 0 THEN [c2 EXCEPT !.ret = Err(c2.res)]
          ELSE [c2 EXCEPT !.ret = Ok(0)]

\* variant: the two bytes taken least significant first
u16_from_le_bytes(b) == b[2] * 256 + b[1]

\* u16::from_be_bytes
u16_from_be_bytes(b) == b[1] * 256 + b[2]

read_reg_u16(c, addr) ==
  LET c1 == spi_transfer_in_place(c, <<register_read(addr), 0, 0>>) IN
  IF c1.res # 0 THEN [c1 EXCEPT !.ret = Err(c1.res)]
  ELSE [c1 EXCEPT !.ret =
          Ok(from_reg(addr, u16_from_be_bytes(<<c1.buf[2], c1.buf[3]>>)))]

\* variant: a status whose power-state code is the reserved one is reported
\* as an error
status_rejects_reserved(c) ==
  LET c1 == read_reg_u16(c, StatAddr) IN
  IF c1.ret.tag = "Ok" /\ contains(c1.ret.val, PDSTAT)
  THEN [c1 EXCEPT !.ret = Err(1)]
  ELSE c1

\* status(): the Status view wraps the decoded Stat value
status(c) == read_reg_u16(c, StatAddr)

\* variant: the three bytes taken least significant first
u32_from_u24_reversed(n) == ((0 * 256 + n[3]) * 256 + n[2]) * 256 + n[1]

\* u24::from_be_bytes keeps the three bytes; From<u24> for u32 puts them
\* below a zero byte, most significant first
u24_from_be_bytes(b) == <<b[1], b[2], b[3]>>

u32_from_u24(n) == ((0 * 256 + n[1]) * 256 + n[2]) * 256 + n[3]

read_reg_u24(c, addr) ==
  LET c1 == spi_transfer_in_place(c, <<register_read(addr), 0, 0, 0>>) IN
  IF c1.res # 0 THEN [c1 EXCEPT !.ret = Err(c1.res)]
  ELSE [c1 EXCEPT !.ret =
          Ok(u32_from_u24(u24_from_be_bytes(<<c1.buf[2], c1.buf[3], c1.buf[4]>>)))]

data(c) == read_reg_u24(c, Data24Addr)

system_offset_calibration_value(c) == read_reg_u24(c, SocAdcAddr)

system_gain_calibration_value(c) == read_reg_u24(c, SgcAdcAddr)

self_calibration_offset_calibration_value(c) == read_reg_u24(c, ScocAdcAddr)

self_calibration_gain_calibration_value(c) == read_reg_u24(c, ScgcAdcAddr)

(***************************************************************************)
(* types.rs: the decoded status view.                                      *)
(***************************************************************************)
\* variant: the power state is read from the two top bits of the word
state_from_top_bits(stat) ==
  LET code == stat \div 16384 IN
  CASE code = 0 -> "Conversion"
    [] code = 1 -> "PowerDown"
    [] code = 2 -> "Standby"
    [] OTHER -> "panic"

\* variant: the codes of PowerDown and Standby exchanged
state_codes_swapped(stat) ==
  LET code == intersection(stat, PDSTAT) \div 1024 IN
  CASE code = 0 -> "Conversion"
    [] code = 1 -> "Standby"
    [] code = 2 -> "PowerDown"
    [] OTHER -> "panic"

\* Status::state: unreachable!() panics on the reserved code
state(stat) ==
  LET code == intersection(stat, PDSTAT) \div 1024 IN
  CASE code = 0 -> "Conversion"
    [] code = 1 -> "PowerDown"
    [] code = 2 -> "Standby"
    [] OTHER -> "panic"

\* variant: the rate field masked but not shifted down
Stat_rate_unshifted(stat) ==
  LET code == intersection(stat, STATRATE) IN
  CASE code = 0 -> "Hz0_95"
    [] code = 1 -> "Hz1_9"
    [] code = 2 -> "Hz3_9"
    [] code = 3 -> "Hz7_8"
    [] code = 4 -> "Hz15_6"
    [] code = 5 -> "Hz31_25"
    [] code = 6 -> "Hz62_5"
    [] code = 7 -> "Hz125"
    [] code = 8 -> "Hz250"
    [] code = 9 -> "Hz500"
    [] code = 10 -> "Hz1000"
    [] code = 11 -> "Hz2000"
    [] code = 12 -> "Hz4000"
    [] code = 13 -> "Hz8000"
    [] code = 14 -> "Hz16000"
    [] code = 15 -> "Hz32000"
    [] OTHER -> "panic"

\* Stat::rate: the rate field, bits 7..4, as a ConversionRate
Stat_rate(stat) ==
  LET code == intersection(stat, STATRATE) \div 16 IN
  CASE code = 0 -> "Hz0_95"
    [] code = 1 -> "Hz1_9"
    [] code = 2 -> "Hz3_9"
    [] code = 3 -> "Hz7_8"
    [] code = 4 -> "Hz15_6"
    [] code = 5 -> "Hz31_25"
    [] code = 6 -> "Hz62_5"
    [] code = 7 -> "Hz125"
    [] code = 8 -> "Hz250"
    [] code = 9 -> "Hz500"
    [] code = 10 -> "Hz1000"
    [] code = 11 -> "Hz2000"
    [] code = 12 -> "Hz4000"
    [] code = 13 -> "Hz8000"
    [] code = 14 -> "Hz16000"
    [] code = 15 -> "Hz32000"
    [] OTHER -> "panic"

\* enum ConversionRate: the discriminant of each variant
ConversionRateCode(name) ==
  CASE name = "Hz0_95" -> 0
    [] name = "Hz1_9" -> 1
    [] name = "Hz3_9" -> 2
    [] name = "Hz7_8" -> 3
    [] name = "Hz15_6" -> 4
    [] name = "Hz31_25" -> 5
    [] name = "Hz62_5" -> 6
    [] name = "Hz125" -> 7
    [] name = "Hz250" -> 8
    [] name = "Hz500" -> 9
    [] name = "Hz1000" -> 10
    [] name = "Hz2000" -> 11
    [] name = "Hz4000" -> 12
    [] name = "Hz8000" -> 13
    [] name = "Hz16000" -> 14
    [] name = "Hz32000" -> 15

\* the Status accessors, on the Stat value the view wraps
data_ready(stat) == contains(stat, RDY)

modulator_busy(stat) == contains(stat, MSTAT)

data_overrange(stat) == contains(stat, DOR)

system_gain_overrange(stat) == contains(stat, DOR)

data_rate(stat) == Stat_rate(stat)

analog_overrange(stat) == contains(stat, AOR)

data_read_error(stat) == contains(stat, RDERR)

\* everything a caller can ask of the Status a status word decodes to
StatusView(word) ==
  LET stat == from_reg(StatAddr, word) IN
  [data_ready |-> data_ready(stat),
   modulator_busy |-> modulator_busy(stat),
   data_overrange |-> data_overrange(stat),
   system_gain_overrange |-> system_gain_overrange(stat),
   data_rate |-> data_rate(stat),
   analog_overrange |-> analog_overrange(stat),
   data_read_error |-> data_read_error(stat),
   state |-> state(stat)]

\* u24::to_be_bytes, u24::to_le_bytes
to_be_bytes(n) == n

to_le_bytes(n) == <<n[3], n[2], n[1]>>

\* i32::from_be_bytes: two's complement of four bytes
i32_from_be_bytes(b) ==
  (IF b[1] >= 128 THEN b[1] - 256 ELSE b[1]) * 16777216
    + b[2] * 65536 + b[3] * 256 + b[4]

\* variant: the three bytes below a byte that repeats the sign bit
i32_from_u24_sign_extended(n) ==
  i32_from_be_bytes(<<IF n[1] >= 128 THEN 255 ELSE 0, n[1], n[2], n[3]>>)

\* From<u24> for i32
i32_from_u24(n) == i32_from_be_bytes(<<0, n[1], n[2], n[3]>>)

(***************************************************************************)
(* lib.rs: the type-state.  Which impl block an operation lives in decides *)
(* the mode tags it can be called on.                                      *)
(***************************************************************************)
Modes == {"Standby", "Sleep", "Conversion"}

\* impl<SPI> Max11214<SPI, Standby>: new, release
CanRelease(mode) == mode = "Standby"

\* variant: the transitions live in the Sleep and Standby impl blocks only
CanTransition_sleep_standby(mode) == mode \in {"Sleep", "Standby"}

\* impl<SPI, E, MODE> Max11214<SPI, MODE>: into_standby, into_sleep,
\* start_conversion, status
CanTransition(mode) == mode \in Modes

CanStatus(mode) == mode \in Modes

\* variant: data lives in the impl block of every mode
CanData_any_mode(mode) == mode \in {"Standby", "Sleep", "Conversion"}

\* impl<SPI, E> Max11214<SPI, Conversion>: data
CanData(mode) == mode = "Conversion"

\* impl_sleep_standby!() in impl Max11214<SPI, Sleep> and <SPI, Standby>
CanConfigure(mode) == mode \in {"Sleep", "Standby"}

\* variant: the new handle is produced whatever the operation returned
TransitionHandle_unconditional(ret, tag) == tag

\* a transition consumes self: Ok carries the handle with the new tag, an
\* error return carries no handle at all
TransitionHandle(ret, tag) == IF ret.tag = "Ok" THEN tag ELSE "None"

\* a &mut self operation leaves the handle as it is
BorrowHandle(mode, ret) == mode

(***************************************************************************)
(* Inputs and initial states.                                              *)
(***************************************************************************)
Rates == 0..MaxRate
Pgas == {"None"} \cup {PgaNames[i + 1] : i \in 0..MaxPga}
Clocks == {"External", "Internal"}
Formats == {"OffsetBinary", "TwosComplement"}

\* the chip as the crate's doc-test meets it: asleep, CTRL1 = 0b00010000
DevBase ==
  [ctrl1 |-> PD0, ctrl2 |-> 0, ctrl5 |-> 0, stat |-> PDSTAT0,
   r24 |-> <<128, 1, 255>>, echo |-> 0]

\* the chip in each power state, PD[1:0] agreeing with it
DevInit ==
  {DevBase,
   [DevBase EXCEPT !.ctrl1 = PD1, !.stat = PDSTAT1],
   [DevBase EXCEPT !.ctrl1 = 0, !.stat = 0]}

\* one register of the chip holding any value
DevAny ==
  {[DevBase EXCEPT !.ctrl1 = b] : b \in Byte}
    \cup {[DevBase EXCEPT !.ctrl2 = b] : b \in Byte}
    \cup {[DevBase EXCEPT !.ctrl5 = b] : b \in Byte}
    \cup {[DevBase EXCEPT !.echo = 255, !.r24 = <<1, 2, 3>>]}

\* every outcome of each of the next MaxSched exchanges
Scheds == [1..MaxSched -> Outcomes]

\* a failure of the first, second or third exchange after construction
SchedInit == {<<>>, <<1>>, <<0, 1>>, <<0, 0, 1>>}

\* the record of an operation: how it was called (op, arg), on what (the
\* handle's tag, the chip and the transport's schedule before it), the
\* exchanges it issued and what it returned
Rec(op, arg, c) ==
  [op |-> op, arg |-> arg, pre |-> handle, before |-> dev, plan |-> sched,
   log |-> c.log, ret |-> c.ret]

NoCtx == [log |-> <<>>, ret |-> Ok(0)]

NoOp ==
  [op |-> "none", arg |-> NoArg, pre |-> "None", before |-> dev,
   plan |-> <<>>, log |-> <<>>, ret |-> Ok(0)]

Init ==
  /\ handle = "None"
  /\ dev \in DevInit
  /\ sched \in SchedInit
  /\ last = NoOp

(***************************************************************************)
(* The operations as actions.                                              *)
(***************************************************************************)
\* Max11214::new(spi): no exchange, the handle is tagged Standby
New ==
  /\ handle = "None"
  /\ handle' = "Standby"
  /\ last' = Rec("new", NoArg, NoCtx)
  /\ UNCHANGED <<dev, sched>>

Release ==
  /\ CanRelease(handle)
  /\ handle' = "None"
  /\ last' = Rec("release", NoArg, NoCtx)
  /\ UNCHANGED <<dev, sched>>

\* what an operation that ran to context c leaves behind
Done(op, arg, c, h) ==
  /\ handle' = h
  /\ dev' = c.dev
  /\ sched' = c.outs
  /\ last' = Rec(op, arg, c)

IntoStandby ==
  /\ CanTransition(handle)
  /\ LET c == into_standby(Ctx(dev, sched)) IN
     Done("into_standby", NoArg, c, TransitionHandle(c.ret, "Standby"))

IntoSleep ==
  /\ CanTransition(handle)
  /\ LET c == into_sleep(Ctx(dev, sched)) IN
     Done("into_sleep", NoArg, c, TransitionHandle(c.ret, "Sleep"))

StartConversion ==
  /\ CanTransition(handle)
  /\ \E rate \in Rates, continuous \in BOOLEAN :
       LET arg == [NoArg EXCEPT !.rate = rate, !.continuous = continuous]
           c == start_conversion(Ctx(dev, sched), arg)
       IN Done("start_conversion", arg, c,
               TransitionHandle(c.ret, "Conversion"))

Status ==
  /\ CanStatus(handle)
  /\ LET c == status(Ctx(dev, sched)) IN
     Done("status", NoArg, c, BorrowHandle(handle, c.ret))

Data ==
  /\ CanData(handle)
  /\ LET c == data(Ctx(dev, sched)) IN
     Done("data", NoArg, c, BorrowHandle(handle, c.ret))

SetClock ==
  /\ CanConfigure(handle)
  /\ \E clock \in Clocks :
       LET arg == [NoArg EXCEPT !.clock = clock]
           c == set_clock(Ctx(dev, sched), arg)
       IN Done("set_clock", arg, c, BorrowHandle(handle, c.ret))

SetFormat ==
  /\ CanConfigure(handle)
  /\ \E format \in Formats :
       LET arg == [NoArg EXCEPT !.format = format]
           c == set_format(Ctx(dev, sched), arg)
       IN Done("set_format", arg, c, BorrowHandle(handle, c.ret))

SetPga ==
  /\ CanConfigure(handle)
  /\ \E pga \in Pgas :
       LET arg == [NoArg EXCEPT !.pga = pga]
           c == set_pga(Ctx(dev, sched), arg)
       IN Done("set_pga", arg, c, BorrowHandle(handle, c.ret))

SelfCalibrate ==
  /\ CanConfigure(handle)
  /\ \E calibration \in Calibrations :
       LET arg == [NoArg EXCEPT !.calibration = calibration]
           c == self_calibrate(Ctx(dev, sched), arg)
       IN Done("self_calibrate", arg, c, BorrowHandle(handle, c.ret))

CalNames ==
  {"system_offset_calibration_value", "system_gain_calibration_value",
   "self_calibration_offset_calibration_value",
   "self_calibration_gain_calibration_value"}

CalRead(name, c) ==
  CASE name = "system_offset_calibration_value" ->
         system_offset_calibration_value(c)
    [] name = "system_gain_calibration_value" ->
         system_gain_calibration_value(c)
    [] name = "self_calibration_offset_calibration_value" ->
         self_calibration_offset_calibration_value(c)
    [] name = "self_calibration_gain_calibration_value" ->
         self_calibration_gain_calibration_value(c)

CalibrationValue ==
  /\ CanConfigure(handle)
  /\ \E name \in CalNames :
       LET c == CalRead(name, Ctx(dev, sched)) IN
       Done(name, NoArg, c, BorrowHandle(handle, c.ret))

\* the chip on its own: in single-cycle mode it completes one conversion
\* and powers down
SingleCycleDone ==
  /\ ChipState(dev) = "Conversion"
  /\ contains(dev.ctrl1, SCYCLE)
  /\ dev' = SetPdstat(dev, PDSTAT0)
  /\ UNCHANGED <<handle, sched, last>>

\* the life of a handle: construction, operations, release
Next ==
  \/ New
  \/ Release
  \/ IntoStandby
  \/ IntoSleep
  \/ StartConversion
  \/ Status
  \/ Data
  \/ SetClock
  \/ SetFormat
  \/ SetPga
  \/ SelfCalibrate
  \/ CalibrationValue
  \/ SingleCycleDone

Spec == Init /\ [][Next]_vars

(***************************************************************************)
(* One operation on a handle of any tag and a transport with any schedule  *)
(* of outcomes; under the Standby handle, which has every operation but    *)
(* data, the chip has one register holding any byte.                       *)
(***************************************************************************)
InitOp ==
  /\ handle \in Modes
  /\ dev \in DevAny \cup DevInit
  /\ handle # "Standby" => dev \in DevInit
  /\ sched \in Scheds
  /\ last = NoOp

NextOp ==
  /\ last.op = "none"
  /\ \/ Release
     \/ IntoStandby
     \/ IntoSleep
     \/ StartConversion
     \/ Status
     \/ Data
     \/ SetClock
     \/ SetFormat
     \/ SetPga
     \/ SelfCalibrate
     \/ CalibrationValue

SpecOp == InitOp /\ [][NextOp]_vars

(***************************************************************************)
(* One status read of a chip whose status register holds any 16-bit word.  *)
(***************************************************************************)
InitStat ==
  /\ handle = "Standby"
  /\ dev \in {[DevBase EXCEPT !.stat = w] : w \in 0..65535}
  /\ sched = <<>>
  /\ last = NoOp

NextStat ==
  /\ last.op = "none"
  /\ Status

SpecStat == InitStat /\ [][NextStat]_vars

(***************************************************************************)
(* The functions of the crate called on their own: the command encoders,   *)
(* the 24-bit integer conversions and the decoding of a status word.  A    *)
(* call starts pending with its input and is then applied.  Next to them,  *)
(* one operation on a chip whose 24-bit registers hold the sample triples. *)
(***************************************************************************)
ByteSamples == {0, 1, 2, 127, 128, 129, 254, 255}

Triples == {<<a, b, c>> : a \in ByteSamples, b \in ByteSamples, c \in ByteSamples}

Words == 0..65535

RateCodes == 0..15

FnNames ==
  {"register_write", "register_read", "conversion", "u32_from_u24",
   "i32_from_u24", "to_be_bytes", "to_le_bytes", "StatusView",
   "set_pga_f", "to_reg_from_reg"}

\* every argument of set_pga: no gain, or one of the eight gains
PgaOptions == {"None"} \cup {PgaNames[i] : i \in 1..Len(PgaNames)}

\* a bitflags register and a raw value read from it: every byte for the
\* 8-bit registers, sample words for the 16-bit status register
RegisterRaws ==
  {<<addr, raw>> : addr \in {Ctrl1Addr, Ctrl2Addr, Ctrl5Addr}, raw \in Byte}
    \cup {<<StatAddr, hi * 256 + lo>> : hi \in ByteSamples, lo \in ByteSamples}

\* the inputs a function is called with
FnInputs(fn) ==
  CASE fn \in {"register_write", "register_read"} -> Byte
    [] fn = "conversion" -> RateCodes
    [] fn = "StatusView" -> Words
    [] fn = "set_pga_f" -> Byte \X PgaOptions
    [] fn = "to_reg_from_reg" -> RegisterRaws
    [] OTHER -> Triples

FnCall(fn, in) == [op |-> fn, in |-> in, done |-> FALSE, out |-> 0]

Eval(fn, in) ==
  CASE fn = "register_write" -> register_write(in)
    [] fn = "register_read" -> register_read(in)
    [] fn = "conversion" -> conversion(in)
    [] fn = "u32_from_u24" -> u32_from_u24(u24_from_be_bytes(in))
    [] fn = "i32_from_u24" -> i32_from_u24(u24_from_be_bytes(in))
    [] fn = "to_be_bytes" -> to_be_bytes(u24_from_be_bytes(in))
    [] fn = "to_le_bytes" -> to_le_bytes(u24_from_be_bytes(in))
    [] fn = "StatusView" -> StatusView(in)
    [] fn = "set_pga_f" -> set_pga_f(in[1], in[2])
    [] fn = "to_reg_from_reg" -> to_reg(from_reg(in[1], in[2]))

\* the chip in each power state, and a chip that holds a sample value in its
\* 24-bit registers, its status register or one control register and puts
\* 0xFF on the bus while the command byte is sent
DevFn ==
  DevInit
    \cup {[DevBase EXCEPT !.r24 = t, !.echo = 255] : t \in Triples}
    \cup {[DevBase EXCEPT !.stat = hi * 256 + lo, !.echo = 255] :
            hi \in ByteSamples, lo \in ByteSamples}
    \cup {[DevBase EXCEPT !.ctrl1 = b, !.echo = 255] : b \in ByteSamples}
    \cup {[DevBase EXCEPT !.ctrl2 = b, !.echo = 255] : b \in ByteSamples}
    \cup {[DevBase EXCEPT !.ctrl5 = b, !.echo = 255] : b \in ByteSamples}

\* a transport that works, and one whose first exchange fails
SchedFn == {<<>>, <<1>>}

InitFn ==
  \/ /\ handle = "None"
     /\ dev = DevBase
     /\ sched = <<>>
     /\ \E fn \in FnNames : \E in \in FnInputs(fn) : last = FnCall(fn, in)
  \/ /\ handle \in Modes
     /\ dev \in DevFn
     /\ sched \in SchedFn
     /\ last = NoOp

Apply ==
  /\ last.op \in FnNames
  /\ ~last.done
  /\ last' = [last EXCEPT !.done = TRUE, !.out = Eval(last.op, last.in)]
  /\ UNCHANGED <<handle, dev, sched>>

NextFn ==
  \/ Apply
  \/ NextOp

SpecFn == InitFn /\ [][NextFn]_vars

\* the last call of fn has returned
Returned(fn) == last.op = fn /\ last.done

(***************************************************************************)
(* Reading the record of the last operation.                               *)
(***************************************************************************)
Log == last.log

TransitionOps == {"into_standby", "into_sleep", "start_conversion"}
ConfigureOps == {"set_clock", "set_format", "set_pga", "self_calibrate"}
ModifyOps == TransitionOps \cup ConfigureOps

\* the tag a successful transition gives the new handle
TagOf(op) ==
  CASE op = "into_standby" -> "Standby"
    [] op = "into_sleep" -> "Sleep"
    [] op = "start_conversion" -> "Conversion"

\* the outcome the transport had scheduled for the i-th exchange
PlanAt(i) == IF i <= Len(last.plan) THEN last.plan[i] ELSE 0

\* an exchange an operation is expected to issue
Exp(kind, out, delay) == [kind |-> kind, out |-> out, delay |-> delay]

\* the operation issued the expected exchanges in order, each with the
\* outcome the transport scheduled, stopped at the first that failed, and
\* returned Ok exactly when the last expected exchange succeeded
Follows(expected) ==
  /\ Len(Log) >= 1
  /\ Len(Log) <= Len(expected)
  /\ \A i \in 1..Len(Log) :
       /\ Log[i].kind = expected[i].kind
       /\ Log[i].out = expected[i].out
       /\ Log[i].delay = expected[i].delay
       /\ Log[i].res = PlanAt(i)
       /\ (i < Len(Log) => Log[i].res = 0)
  /\ (Len(Log) < Len(expected) => Log[Len(Log)].res # 0)
  /\ (last.ret.tag = "Ok" <=>
        (Len(Log) = Len(expected) /\ Log[Len(Log)].res = 0))

\* the two power bits of a CTRL1 value replaced by pd (0, 16 or 32)
WithPd(v, pd) == v - ((v \div 16) % 4) * 16 + pd

\* bit k of v replaced by b
WithBit(v, k, b) == v - ((v \div (2 ^ k)) % 2) * (2 ^ k) + (IF b THEN 2 ^ k ELSE 0)

\* read of CTRL1, then the write of want unless it is the value read
ReadModifyWrite(readCmd, writeCmd, v, want) ==
  <<Exp("transfer_in_place", <<readCmd, 0>>, 0)>>
    \o (IF want # v THEN <<Exp("write", <<writeCmd, want>>, 0)>> ELSE <<>>)

(***************************************************************************)
(* C1: into_standby (into_sleep) issues one CTRL1 read, then the write of  *)
(* the read value with PD1 set and PD0 cleared (PD0 set and PD1 cleared)   *)
(* only if that differs from the value read, then the power-down command   *)
(* whether or not the write was skipped; the Standby (Sleep) handle exists *)
(* only once the command write has succeeded.                              *)
(***************************************************************************)
C1_Want == WithPd(last.before.ctrl1, IF last.op = "into_standby" THEN 32 ELSE 16)

C1_PowerModeSequence ==
  last.op \in {"into_standby", "into_sleep"} =>
    /\ Follows(ReadModifyWrite(195, 194, last.before.ctrl1, C1_Want)
                 \o <<Exp("write", <<144>>, 0)>>)
    /\ (Log[1].res = 0 => Log[1].in[2] = last.before.ctrl1)
    /\ (handle = TagOf(last.op) <=> last.ret.tag = "Ok")
    /\ (last.ret.tag = "Err" => handle = "None")

C1_Witness ==
  /\ last.op = "into_standby"
  /\ last.before.ctrl1 = 16 + 8 + 1
  /\ Len(Log) = 3
  /\ Log[2].out = <<194, 32 + 8 + 1>>
  /\ handle = "Standby"

(***************************************************************************)
(* C2: start_conversion(rate, continuous) reads CTRL1, writes it back with *)
(* PD0 and PD1 cleared and SCYCLE = NOT continuous only if that differs,   *)
(* then issues the command 0b1000_0000 | rate, and only then produces the  *)
(* Conversion handle.                                                      *)
(***************************************************************************)
C2_Want == WithBit(WithPd(last.before.ctrl1, 0), 1, ~last.arg.continuous)

C2_StartConversionSequence ==
  last.op = "start_conversion" =>
    /\ last.arg.rate \in 0..15
    /\ Follows(ReadModifyWrite(195, 194, last.before.ctrl1, C2_Want)
                 \o <<Exp("write", <<128 + last.arg.rate>>, 0)>>)
    /\ (handle = "Conversion" <=> last.ret.tag = "Ok")
    /\ (last.ret.tag = "Err" => handle = "None")

C2_Witness ==
  /\ last.op = "start_conversion"
  /\ last.arg.rate = 1
  /\ last.arg.continuous
  /\ last.before.ctrl1 = 128 + 32 + 2 + 1
  /\ Len(Log) = 3
  /\ Log[2].out = <<194, 128 + 1>>
  /\ Log[3].out = <<129>>
  /\ handle = "Conversion"

(***************************************************************************)
(* C3: a read-modify-write operation issues the register write if and only *)
(* if the new register value differs from the value just read; into_standby*)
(* on CTRL1 = 0b00100000 is one read, no CTRL1 write, then the power-down  *)
(* command.                                                                *)
(***************************************************************************)
PgaCodeOf(pga) == CHOOSE i \in 0..7 : PgaNames[i + 1] = pga

CalCodeOf(calibration) ==
  CASE calibration = "SelfCalibration" -> 0
    [] calibration = "SystemOffsetCalibration" -> 1
    [] calibration = "SystemFullScaleCalibration" -> 2

\* address of the register an operation modifies
ModifiedAddr(op) ==
  CASE op = "set_pga" -> 2
    [] op = "self_calibrate" -> 5
    [] OTHER -> 1

\* the register value the operation asks for, given the byte v read
Intended(op, arg, v) ==
  CASE op = "into_standby" -> WithPd(v, 32)
    [] op = "into_sleep" -> WithPd(v, 16)
    [] op = "start_conversion" -> WithBit(WithPd(v, 0), 1, ~arg.continuous)
    [] op = "set_clock" -> WithBit(v, 7, arg.clock = "External")
    [] op = "set_format" -> WithBit(v, 2, arg.format = "OffsetBinary")
    [] op = "set_pga" ->
         IF arg.pga = "None" THEN WithBit(v, 3, FALSE)
         ELSE v - (v % 16) + 8 + PgaCodeOf(arg.pga)
    [] op = "self_calibrate" -> (v % 64) + 64 * CalCodeOf(arg.calibration)

RegisterWrites == {i \in 1..Len(Log) : Log[i].kind = "write" /\ Len(Log[i].out) = 2}

C3_WriteIffChanged ==
  last.op \in ModifyOps =>
    /\ Log[1].kind = "transfer_in_place"
    /\ Log[1].out = <<192 + 2 * ModifiedAddr(last.op) + 1, 0>>
    /\ (Log[1].res # 0 => RegisterWrites = {})
    /\ (Log[1].res = 0 =>
          IF Intended(last.op, last.arg, Log[1].in[2]) # Log[1].in[2]
          THEN /\ RegisterWrites = {2}
               /\ Log[2].out[1] = 192 + 2 * ModifiedAddr(last.op)
          ELSE RegisterWrites = {})
    /\ (last.op = "into_standby" /\ Log[1].res = 0 /\ Log[1].in[2] = 32 =>
          /\ Len(Log) = 2
          /\ Log[2].kind = "write"
          /\ Log[2].out = <<144>>)

C3_Witness ==
  /\ last.op = "into_standby"
  /\ Len(Log) = 2
  /\ Log[1].out = <<195, 0>>
  /\ Log[1].in = <<0, 32>>
  /\ Log[2].out = <<144>>
  /\ Log[2].res = 0
  /\ handle = "Standby"

(***************************************************************************)
(* C6: a transport failure during into_standby, into_sleep or              *)
(* start_conversion produces no handle with the new tag.  As claimed, the  *)
(* caller keeps the handle in its previous mode (C6_Original); as the code *)
(* has it, the call has consumed the handle and returns only the error.    *)
(***************************************************************************)
C6_Original ==
  (last.op \in TransitionOps /\ last.ret.tag = "Err") => handle = last.pre

C6_NoHandleAfterFailure ==
  last.op \in TransitionOps =>
    /\ (\E i \in 1..Len(Log) : Log[i].res # 0) =>
         (handle = "None" /\ last.ret.tag = "Err")
    /\ (\A i \in 1..Len(Log) : Log[i].res = 0) =>
         (handle = TagOf(last.op) /\ last.ret.tag = "Ok")

C6_Witness ==
  /\ last.op = "into_sleep"
  /\ last.pre = "Standby"
  /\ Len(Log) = 3
  /\ Log[2].res = 0
  /\ Log[3].res # 0
  /\ last.ret.tag = "Err"
  /\ handle = "None"

(***************************************************************************)
(* C7: the first exchange that fails ends the operation: the operation     *)
(* returns Error::Spi with exactly that exchange's error value, issues no  *)
(* later exchange and does not retry.                                      *)
(***************************************************************************)
C7_FirstFailureEnds ==
  Len(Log) >= 1 =>
    /\ \A i \in 1..Len(Log) :
         /\ Log[i].res = PlanAt(i)
         /\ (Log[i].res # 0 => i = Len(Log))
    /\ (Log[Len(Log)].res # 0 => last.ret = Err(PlanAt(Len(Log))))
    /\ (last.ret.tag = "Err" =>
          /\ last.ret.err = Log[Len(Log)].res
          /\ last.ret.err \in Errs)
    /\ \A i \in 1..Len(last.plan) :
         (last.plan[i] # 0 /\ \A j \in 1..(i - 1) : last.plan[j] = 0)
           => Len(Log) <= i

C7_Witness ==
  /\ last.op = "start_conversion"
  /\ last.plan = <<0, 2, 1>>
  /\ Len(Log) = 2
  /\ Log[2].kind = "write"
  /\ Len(Log[2].out) = 2
  /\ last.ret = Err(2)

(***************************************************************************)
(* C9: self_calibrate read-modify-writes CTRL5 so that CAL1:CAL0 is 00, 01  *)
(* or 10, then issues the calibrate command with a delay of 200 ms (self)  *)
(* or 100 ms (system), also when the write was skipped, and neither when   *)
(* the read or the write failed.  As claimed, every other CTRL5 bit is     *)
(* written as read (C9_Original); as the code has it, the bits 5 and 4,    *)
(* which are no flags of Ctrl5, are written as 0 and do not count in the   *)
(* comparison.                                                             *)
(***************************************************************************)
C9_DelayNs == (IF last.arg.calibration = "SelfCalibration" THEN 200 ELSE 100) * 1000000

C9_Original ==
  last.op = "self_calibrate" =>
    Follows(ReadModifyWrite(203, 202, last.before.ctrl5,
                            Intended(last.op, last.arg, last.before.ctrl5))
              \o <<Exp("transaction", <<calibrate>>, C9_DelayNs)>>)

\* v without the bits 5 and 4
Defined5(v) == v - ((v \div 16) % 4) * 16

C9_SelfCalibrateSequence ==
  last.op = "self_calibrate" =>
    Follows(ReadModifyWrite(203, 202, Defined5(last.before.ctrl5),
                            Intended(last.op, last.arg, Defined5(last.before.ctrl5)))
              \o <<Exp("transaction", <<calibrate>>, C9_DelayNs)>>)

C9_Witness ==
  /\ last.op = "self_calibrate"
  /\ last.arg.calibration = "SelfCalibration"
  /\ last.before.ctrl5 = 64 + 32 + 16 + 1
  /\ Len(Log) = 3
  /\ Log[2].out = <<202, 1>>
  /\ Log[3].kind = "transaction"
  /\ Log[3].delay = 200000000
  /\ last.ret.tag = "Ok"

(***************************************************************************)
(* C10: status().state() depends only on PDSTAT (bits 11..10 of the        *)
(* big-endian status word): 00 is Conversion, 01 PowerDown, 10 Standby,    *)
(* whatever the other 14 bits; bytes 0b00000100, 0 decode to PowerDown and *)
(* 0b00001000, 0 to Standby.                                               *)
(***************************************************************************)
C10_Pdstat == (Log[1].in[2] \div 4) % 4

C10_StateFromPdstat ==
  (last.op = "status" /\ last.ret.tag = "Ok") =>
    /\ Log[1].in[2] * 256 + Log[1].in[3] = last.before.stat
    /\ (C10_Pdstat = 0 => state(last.ret.val) = "Conversion")
    /\ (C10_Pdstat = 1 => state(last.ret.val) = "PowerDown")
    /\ (C10_Pdstat = 2 => state(last.ret.val) = "Standby")
    /\ (<<Log[1].in[2], Log[1].in[3]>> = <<4, 0>> => state(last.ret.val) = "PowerDown")
    /\ (<<Log[1].in[2], Log[1].in[3]>> = <<8, 0>> => state(last.ret.val) = "Standby")

C10_Witness ==
  /\ last.op = "status"
  /\ last.ret.tag = "Ok"
  /\ Log[1].in = <<0, 128 + 64 + 32 + 16 + 4 + 2 + 1, 255>>
  /\ state(last.ret.val) = "PowerDown"

(***************************************************************************)
(* C4: the operations a handle offers are gated by its tag: data only on   *)
(* Conversion; set_clock, set_format, set_pga, self_calibrate and the four *)
(* calibration-value reads only on Standby or Sleep; status on every tag.  *)
(* An operation is offered on a handle when the guard of its impl block    *)
(* admits the handle's tag, and every operation that ran was called on a   *)
(* tag that offers it.                                                     *)
(***************************************************************************)
C4_GatedByTag ==
  /\ CanData(handle) <=> handle = "Conversion"
  /\ CanConfigure(handle) <=> handle \in {"Standby", "Sleep"}
  /\ CanStatus(handle) <=> handle \in {"Standby", "Sleep", "Conversion"}
  /\ last.op = "data" => last.pre = "Conversion"
  /\ last.op \in ConfigureOps \cup CalNames => last.pre \in {"Standby", "Sleep"}
  /\ last.op = "status" => last.pre \in {"Standby", "Sleep", "Conversion"}

C4_Witness ==
  /\ handle = "Conversion"
  /\ last.op = "data"
  /\ last.pre = "Conversion"
  /\ last.ret = Ok(128 * 65536 + 1 * 256 + 255)
  /\ ~CanConfigure(handle)
  /\ CanStatus(handle)

(***************************************************************************)
(* C5: as claimed, a Conversion handle has no mode transition: the three   *)
(* transitions are called only on a Standby or Sleep handle and a handle   *)
(* leaves Conversion only by release (C5_Original).  As the code has it,   *)
(* the transitions are offered on a handle of every tag, so a handle       *)
(* leaves Conversion only by a transition, and release is offered only on  *)
(* a Standby handle.                                                       *)
(***************************************************************************)
C5_Original ==
  /\ last.op \in TransitionOps => last.pre \in {"Standby", "Sleep"}
  /\ (last.pre = "Conversion" /\ handle # "Conversion") => last.op = "release"

C5_TransitionsOnEveryTag ==
  /\ CanTransition(handle) <=> handle \in {"Standby", "Sleep", "Conversion"}
  /\ CanRelease(handle) <=> handle = "Standby"
  /\ last.op \in TransitionOps => last.pre \in {"Standby", "Sleep", "Conversion"}
  /\ last.op = "release" => (last.pre = "Standby" /\ handle = "None")
  /\ (last.pre = "Conversion" /\ handle # "Conversion") => last.op \in TransitionOps

C5_Witness ==
  /\ last.op = "into_standby"
  /\ last.pre = "Conversion"
  /\ last.ret.tag = "Ok"
  /\ handle = "Standby"

(***************************************************************************)
(* C8: as claimed, whenever a handle exists, also right after new(), its   *)
(* tag corresponds to the chip's actual power state (C8_Original).  As the *)
(* code has it, new() tags the handle Standby without any exchange,        *)
(* whatever state the chip is in; the tag corresponds to the chip's state  *)
(* at the moment a transition returns Ok.                                  *)
(***************************************************************************)
StateOfTag(tag) ==
  CASE tag = "Standby" -> "Standby"
    [] tag = "Sleep" -> "PowerDown"
    [] tag = "Conversion" -> "Conversion"

C8_Original == handle \in Modes => ChipState(dev) = StateOfTag(handle)

C8_TagMatchesAfterTransition ==
  [][/\ (last' # last /\ last'.op \in TransitionOps /\ last'.ret.tag = "Ok") =>
          /\ handle' = TagOf(last'.op)
          /\ ChipState(dev') = StateOfTag(handle')
     /\ (last' # last /\ last'.op = "new") =>
          /\ handle' = "Standby"
          /\ dev' = dev
          /\ last'.log = <<>>]_vars

C8_Witness ==
  /\ last.op = "into_standby"
  /\ ChipState(last.before) = "PowerDown"
  /\ last.ret.tag = "Ok"
  /\ handle = "Standby"
  /\ ChipState(dev) = "Standby"

(***************************************************************************)
(* C11: a status word whose PDSTAT field is the reserved code 11 is never  *)
(* reported as an error: status() returns Ok for every 16-bit response the *)
(* transport delivers, and state() panics exactly on the statuses with     *)
(* PDSTAT = 11, where it yields none of the three State values.            *)
(***************************************************************************)
C11_StateValues == {"Conversion", "PowerDown", "Standby"}

C11_ReservedCodePanics ==
  last.op = "status" =>
    /\ (Log[1].res = 0 => last.ret.tag = "Ok")
    /\ (last.ret.tag = "Err" => Log[1].res # 0)
    /\ (last.ret.tag = "Ok" =>
          /\ (C10_Pdstat = 3 <=> state(last.ret.val) = "panic")
          /\ (C10_Pdstat = 3 => state(last.ret.val) \notin C11_StateValues)
          /\ (C10_Pdstat # 3 => state(last.ret.val) \in C11_StateValues))

C11_Witness ==
  /\ last.op = "status"
  /\ Log[1].in = <<0, 12, 0>>
  /\ last.ret.tag = "Ok"
  /\ state(last.ret.val) = "panic"

(***************************************************************************)
(* C12: as claimed, the status response bytes 0b01000000, 0b00010000       *)
(* decode to state = PowerDown (C12_Original).  As the code has it, these  *)
(* bytes are the word 0x4010, whose PDSTAT field (bits 11..10) is 00: they *)
(* decode to state = Conversion, with the ERROR flag and rate code 1.      *)
(***************************************************************************)
C12_Response == Len(Log) = 1 /\ Log[1].res = 0 /\ <<Log[1].in[2], Log[1].in[3]>> = <<64, 16>>

C12_Original ==
  (last.op = "status" /\ C12_Response) => state(last.ret.val) = "PowerDown"

C12_DecodesToConversion ==
  (last.op = "status" /\ C12_Response) =>
    /\ last.ret = Ok(16384 + 16)
    /\ state(last.ret.val) = "Conversion"
    /\ data_rate(last.ret.val) = "Hz1_9"

C12_Witness ==
  /\ last.op = "status"
  /\ C12_Response
  /\ last.before.stat = 64 * 256 + 16
  /\ state(last.ret.val) = "Conversion"

(***************************************************************************)
(* C13: the first byte of every exchange has the start bit (7) set; bit 6  *)
(* is set exactly when the exchange is a register access and is clear for  *)
(* the conversion commands; for every 5-bit address a, register_write(a)   *)
(* is 0b1100_0000 | (a << 1) and register_read(a) is that byte | 1.        *)
(***************************************************************************)
\* bit k of v is set
Bit(v, k) == (v \div (2 ^ k)) % 2 = 1

\* an exchange that reads or writes a register: an in-place transfer, or a
\* write of a command byte with a value byte
RegisterAccess(x) ==
  x.kind = "transfer_in_place" \/ (x.kind = "write" /\ Len(x.out) >= 2)

C13_CommandBytes ==
  /\ Returned("register_write") =>
       /\ Bit(last.out, 7) /\ Bit(last.out, 6)
       /\ (last.in \in 0..31 => last.out = 192 + 2 * last.in)
  /\ Returned("register_read") =>
       /\ Bit(last.out, 7) /\ Bit(last.out, 6)
       /\ (last.in \in 0..31 => last.out = (192 + 2 * last.in) + 1)
  /\ Returned("conversion") =>
       /\ Bit(last.out, 7) /\ ~Bit(last.out, 6)
       /\ last.out = 128 + last.in
  /\ last.op \notin FnNames =>
       \A i \in 1..Len(Log) :
         /\ Bit(Log[i].out[1], 7)
         /\ (Bit(Log[i].out[1], 6) <=> RegisterAccess(Log[i]))

C13_Witness ==
  /\ Returned("register_read")
  /\ last.in = 31
  /\ last.out = 255

(***************************************************************************)
(* C14: as claimed, the power-down command byte that ends into_standby and *)
(* into_sleep has the start bit and the mode bit (6) set and the rate and  *)
(* address fields zero (C14_Original).  As the code has it, the byte is    *)
(* the constant 0b10010000: start bit and IMPD (bit 4) set, mode bit       *)
(* clear, rate field (bits 3..0) zero.                                     *)
(***************************************************************************)
\* the command bytes into_standby or into_sleep put on the bus
C14_Commands ==
  IF last.op \in {"into_standby", "into_sleep"}
  THEN {Log[i].out[1] : i \in {j \in 1..Len(Log) : ~RegisterAccess(Log[j])}}
  ELSE {}

C14_Original ==
  \A b \in C14_Commands :
    /\ Bit(b, 7) /\ Bit(b, 6)
    /\ b % 16 = 0
    /\ (b \div 2) % 32 = 0

C14_PowerDownByte ==
  /\ \A b \in C14_Commands :
       /\ b = 144
       /\ Bit(b, 7) /\ ~Bit(b, 6) /\ Bit(b, 4)
       /\ b % 16 = 0
  /\ (last.op \in {"into_standby", "into_sleep"} /\ last.ret.tag = "Ok") =>
       /\ Log[Len(Log)].kind = "write"
       /\ Log[Len(Log)].out = <<144>>

C14_Witness ==
  /\ last.op = "into_sleep"
  /\ last.before.ctrl1 = 16
  /\ last.ret.tag = "Ok"
  /\ Len(Log) = 2
  /\ Log[2].out = <<144>>

(***************************************************************************)
(* C15: every register read is one in-place exchange of 1 + N bytes, the   *)
(* read command followed by N zero bytes (N = 1 for CTRL registers, 2 for  *)
(* STAT, 3 for 24-bit registers); the first response byte is discarded.    *)
(* As claimed, the result is the big-endian value of the N bytes that      *)
(* follow (C15_Original); as the code has it, a bitflags register keeps    *)
(* only its defined flags of that value (STAT without bits 13 and 12,      *)
(* CTRL5 without bits 5 and 4).  Every register write is one write of the  *)
(* write command followed by the value byte.                               *)
(***************************************************************************)
C15_Width(addr) ==
  CASE addr \in {1, 2, 5} -> 1
    [] addr = 0 -> 2
    [] OTHER -> 3

\* address of the register an operation reads
C15_ReadAddr(op) ==
  CASE op = "status" -> 0
    [] op = "data" -> 6
    [] op = "system_offset_calibration_value" -> 21
    [] op = "system_gain_calibration_value" -> 22
    [] op = "self_calibration_offset_calibration_value" -> 23
    [] op = "self_calibration_gain_calibration_value" -> 24
    [] OTHER -> ModifiedAddr(op)

C15_Zeros(n) == [i \in 1..n |-> 0]

\* big-endian value of the response bytes after the first
C15_BigEndian(in) ==
  CASE Len(in) = 2 -> in[2]
    [] Len(in) = 3 -> in[2] * 256 + in[3]
    [] Len(in) = 4 -> (in[2] * 256 + in[3]) * 256 + in[4]

\* the value without the bits that are no flag of the register
C15_DefinedBits(addr, v) ==
  CASE addr = 0 -> v - ((v \div 4096) % 4) * 4096
    [] addr = 5 -> v - ((v \div 16) % 4) * 16
    [] OTHER -> v

\* the value an operation reads from the response to its read of register
\* addr: the big-endian value, as it is or with the defined bits only
C15_Value(addr, in, defined) ==
  IF defined THEN C15_DefinedBits(addr, C15_BigEndian(in)) ELSE C15_BigEndian(in)

\* the exchanges have the claimed shape and the value read is C15_Value
C15_Shape(defined) ==
  (last.op \notin FnNames /\ Len(Log) >= 1) =>
    LET a == C15_ReadAddr(last.op)
        x == Log[1]
    IN /\ x.kind = "transfer_in_place"
       /\ x.out = <<192 + 2 * a + 1>> \o C15_Zeros(C15_Width(a))
       /\ \A i \in 2..Len(Log) : Log[i].kind # "transfer_in_place"
       /\ (x.res # 0 => (Len(Log) = 1 /\ last.ret.tag = "Err"))
       /\ (x.res = 0 =>
             /\ Len(x.in) = 1 + C15_Width(a)
             /\ (last.op \notin ModifyOps =>
                   last.ret = Ok(C15_Value(a, x.in, defined)))
             /\ \A i \in 2..Len(Log) :
                  RegisterAccess(Log[i]) =>
                    /\ Log[i].kind = "write"
                    /\ Log[i].out =
                         <<192 + 2 * a,
                           Intended(last.op, last.arg, C15_Value(a, x.in, defined))>>)

C15_Original == C15_Shape(FALSE)

C15_RegisterExchanges == C15_Shape(TRUE)

C15_Witness ==
  /\ last.op = "status"
  /\ Log[1].out = <<193, 0, 0>>
  /\ Log[1].in = <<255, 127, 129>>
  /\ last.ret = Ok((127 - 48) * 256 + 129)

(***************************************************************************)
(* C16: as claimed, the conversion of a 24-bit value to i32 sign-extends   *)
(* from bit 23: (b0<<16 | b1<<8 | b2) - 2^24 when b0 >= 0x80               *)
(* (C16_Original).  As the code has it, the conversion zero-extends: the   *)
(* result is b0<<16 | b1<<8 | b2 for every triple and is never negative.   *)
(***************************************************************************)
\* b0<<16 | b1<<8 | b2
C16_Unsigned(b) == b[1] * 65536 + b[2] * 256 + b[3]

C17_ReadsU24 == {"data"} \cup CalNames

C17_U24Conversions ==
  /\ Returned("u32_from_u24") =>
       /\ last.out = (last.in[1] * 256 + last.in[2]) * 256 + last.in[3]
       /\ last.out \in 0..16777215
  /\ Returned("to_be_bytes") => last.out = last.in
  /\ Returned("to_le_bytes") => last.out = <<last.in[3], last.in[2], last.in[1]>>
  /\ (last.op \in C17_ReadsU24 /\ last.ret.tag = "Ok") =>
       /\ <<Log[1].in[2], Log[1].in[3], Log[1].in[4]>> = last.before.r24
       /\ last.ret.val =
            (Log[1].in[2] * 256 + Log[1].in[3]) * 256 + Log[1].in[4]

C17_Witness ==
  /\ last.op = "system_gain_calibration_value"
  /\ Log[1].in = <<255, 254, 1, 128>>
  /\ last.ret = Ok(254 * 65536 + 1 * 256 + 128)

(***************************************************************************)
(* C18: for every rate code r in 0..15 the conversion command is           *)
(* 0b1000_0000 | r, and a status word whose rate field (bits 7..4) holds r *)
(* decodes through Stat::rate / Status::data_rate to the ConversionRate    *)
(* whose code is r, whatever the other bits of the word.                   *)
(***************************************************************************)
C18_RateField(word) == (word \div 16) % 16

C18_RateRoundTrip ==
  /\ Returned("conversion") =>
       /\ last.in \in 0..15
       /\ last.out = 128 + last.in
       /\ last.out % 16 = last.in
  /\ Returned("StatusView") =>
       /\ last.out.data_rate # "panic"
       /\ ConversionRateCode(last.out.data_rate) = C18_RateField(last.in)

C18_Witness ==
  /\ Returned("StatusView")
  /\ last.in = 32768 + 256 + 10 * 16 + 15
  /\ last.out.data_rate = "Hz1000"

(***************************************************************************)
(* C19: each status flag accessor reflects exactly its own bit of the      *)
(* status word: data_ready RDY (0), modulator_busy MSTAT (1),              *)
(* data_overrange DOR (2), system_gain_overrange SYSGOR (3),               *)
(* analog_overrange AOR (8), data_read_error RDERR (9).                    *)
(***************************************************************************)
C19_FlagsOwnBit ==
  Returned("StatusView") =>
    /\ last.out.data_ready = Bit(last.in, 0)
    /\ last.out.modulator_busy = Bit(last.in, 1)
    /\ last.out.data_overrange = Bit(last.in, 2)
    /\ last.out.system_gain_overrange = Bit(last.in, 3)
    /\ last.out.analog_overrange = Bit(last.in, 8)
    /\ last.out.data_read_error = Bit(last.in, 9)

(***************************************************************************)
(* C20: a mode transition leaves the clock-source bit (CTRL1 EXTCK), the   *)
(* format bit (CTRL1 FORMAT) and the PGA settings (CTRL2) of the chip as   *)
(* they were: into_standby, into_sleep and start_conversion change no      *)
(* CTRL1 bit other than PD0, PD1 and, for start_conversion, SCYCLE, and    *)
(* write no register but CTRL1.  Holding for every transition of a run, it *)
(* holds across every sequence of them (Standby, Conversion, Standby).     *)
(***************************************************************************)
\* the CTRL1 bits a transition may change
C20_Owned(op) == IF op = "start_conversion" THEN 16 + 32 + 2 ELSE 16 + 32

\* v without the bits of mask
C20_Outside(v, mask) == v - BitAnd(v, mask)

C20_TransitionsKeepSettings ==
  last.op \in TransitionOps =>
    /\ C20_Outside(dev.ctrl1, C20_Owned(last.op))
         = C20_Outside(last.before.ctrl1, C20_Owned(last.op))
    /\ Bit(dev.ctrl1, 7) = Bit(last.before.ctrl1, 7)
    /\ Bit(dev.ctrl1, 2) = Bit(last.before.ctrl1, 2)
    /\ dev.ctrl2 = last.before.ctrl2
    /\ dev.ctrl5 = last.before.ctrl5
    /\ \A i \in 1..Len(Log) :
         (Log[i].kind = "write" /\ Len(Log[i].out) >= 2) => Log[i].out[1] = 194

C20_Witness ==
  /\ last.op = "into_standby"
  /\ last.pre = "Conversion"
  /\ last.ret.tag = "Ok"
  /\ Bit(last.before.ctrl1, 7) /\ Bit(last.before.ctrl1, 2)
  /\ Bit(last.before.ctrl2, 3)
  /\ Len(Log) = 3
  /\ Bit(dev.ctrl1, 7) /\ Bit(dev.ctrl1, 2) /\ Bit(dev.ctrl1, 5)
  /\ Bit(dev.ctrl2, 3)

(***************************************************************************)
(* C21: set_clock(External | Internal) sets | clears only EXTCK in CTRL1;  *)
(* set_format(OffsetBinary | TwosComplement) sets | clears only FORMAT in  *)
(* CTRL1; set_pga(Some(g)) sets PGAEN and makes the 3-bit PGAG field of    *)
(* CTRL2 equal to the code of g (X1 = 0 .. X128 = 7); set_pga(None) clears *)
(* only PGAEN and leaves the gain code as it was.  Every other bit of the  *)
(* register is written back as read and no other register is written.      *)
(***************************************************************************)
C21_GainCode(g) ==
  CASE g = "X1" -> 0
    [] g = "X2" -> 1
    [] g = "X4" -> 2
    [] g = "X8" -> 3
    [] g = "X16" -> 4
    [] g = "X32" -> 5
    [] g = "X64" -> 6
    [] g = "X128" -> 7

\* CTRL2 value v with the gain g asked for
C21_PgaWant(v, g) ==
  IF g = "None"
  THEN WithBit(v, 3, FALSE)
  ELSE (v \div 16) * 16 + 8 + C21_GainCode(g)

C21_Want(op, arg, v) ==
  CASE op = "set_clock" -> WithBit(v, 7, arg.clock = "External")
    [] op = "set_format" -> WithBit(v, 2, arg.format = "OffsetBinary")
    [] op = "set_pga" -> C21_PgaWant(v, arg.pga)

\* the value the chip held in the register at addr
C21_RegOf(d, addr) == IF addr = 2 THEN d.ctrl2 ELSE d.ctrl1

C21_ConfigureOwnBitsOnly ==
  /\ Returned("set_pga_f") => last.out = C21_PgaWant(last.in[1], last.in[2])
  /\ last.op \in {"set_clock", "set_format", "set_pga"} =>
       LET addr == ModifiedAddr(last.op)
           v == C21_RegOf(last.before, addr)
           want == C21_Want(last.op, last.arg, v)
       IN /\ addr = (IF last.op = "set_pga" THEN 2 ELSE 1)
          /\ Follows(ReadModifyWrite(192 + 2 * addr + 1, 192 + 2 * addr, v, want))
          /\ C21_RegOf(dev, addr) = (IF last.ret.tag = "Ok" THEN want ELSE v)
          /\ C21_RegOf(dev, 3 - addr) = C21_RegOf(last.before, 3 - addr)
          /\ dev.ctrl5 = last.before.ctrl5

C21_Witness ==
  /\ last.op = "set_pga"
  /\ last.arg.pga = "X1"
  /\ last.before.ctrl2 = 255
  /\ Len(Log) = 2
  /\ Log[2].out = <<196, 248>>
  /\ last.ret.tag = "Ok"
  /\ dev.ctrl2 = 248

(***************************************************************************)
(* C22: decoding a bitfield register from its raw value and encoding it    *)
(* again keeps the defined flag bits.  As claimed (C22_Original) it is the *)
(* identity for every raw value, so that self_calibrate writes CTRL5 back  *)
(* with the reserved bits 5 and 4 as read; as the code has it, the round   *)
(* trip clears the bits that are no flag (bits 5 and 4 of CTRL5, bits 13   *)
(* and 12 of STAT; CTRL1 and CTRL2 have none), self_calibrate writes the   *)
(* bits 5 and 4 as 0 and the other bits outside CAL1:CAL0 as read, and it  *)
(* writes exactly when the CAL field read differs from the one asked for.  *)
(***************************************************************************)
\* the CTRL5 write of the last operation, if it issued one
C22_Written == {Log[i].out[2] : i \in RegisterWrites}

\* the CAL1:CAL0 field (bits 7..6) of a CTRL5 value
C22_CalField(v) == v \div 64

C22_Original ==
  /\ Returned("to_reg_from_reg") => last.out = last.in[2]
  /\ last.op = "self_calibrate" =>
       /\ \A w \in C22_Written : w % 64 = last.before.ctrl5 % 64
       /\ (C22_Written # {} <=>
             (Log[1].res = 0
                /\ Intended(last.op, last.arg, last.before.ctrl5) # last.before.ctrl5))

\* raw without the bits that are no flag of the register at addr
C22_DefinedBits(addr, raw) ==
  CASE addr = 5 -> raw - ((raw \div 16) % 4) * 16
    [] addr = 0 -> raw - ((raw \div 4096) % 4) * 4096
    [] addr \in {1, 2} -> raw

C22_RoundTripKeepsDefinedBits ==
  /\ Returned("to_reg_from_reg") =>
       last.out = C22_DefinedBits(last.in[1], last.in[2])
  /\ last.op = "self_calibrate" =>
       /\ \A w \in C22_Written :
            /\ w % 16 = last.before.ctrl5 % 16
            /\ (w \div 16) % 4 = 0
            /\ C22_CalField(w) = CalCodeOf(last.arg.calibration)
       /\ (C22_Written # {} <=>
             (Log[1].res = 0
                /\ C22_CalField(last.before.ctrl5) # CalCodeOf(last.arg.calibration)))
       /\ (C22_Written = {} => dev.ctrl5 = last.before.ctrl5)

C22_Witness ==
  /\ last.op = "self_calibrate"
  /\ last.arg.calibration = "SystemFullScaleCalibration"
  /\ last.before.ctrl5 = 127
  /\ C22_Written = {128 + 15}
  /\ dev.ctrl5 = 128 + 15

(***************************************************************************)
(* C23: against a chip that stores what is written to CTRL1 and returns it *)
(* on read, after every successful into_standby, into_sleep or             *)
(* start_conversion the power bits PD1:PD0 of the chip's CTRL1 are the     *)
(* code of the new handle's tag (Standby 10, Sleep 01, Conversion 00), for *)
(* every CTRL1 value before and whether the write was issued or skipped.   *)
(***************************************************************************)
C23_PowerCode(tag) ==
  CASE tag = "Standby" -> 2
    [] tag = "Sleep" -> 1
    [] tag = "Conversion" -> 0

\* the field PD1:PD0 (bits 5..4) of a CTRL1 value
C23_PowerBits(v) == (v \div 16) % 4

C23_PowerBitsMatchTag ==
  (last.op \in TransitionOps /\ last.ret.tag = "Ok") =>
    /\ handle \in {"Standby", "Sleep", "Conversion"}
    /\ C23_PowerBits(dev.ctrl1) = C23_PowerCode(handle)

\* a conversion started on a chip whose CTRL1 already had the value asked
\* for: the write was skipped
C23_Witness ==
  /\ last.op = "start_conversion"
  /\ ~last.arg.continuous
  /\ last.before.ctrl1 = 128 + 2
  /\ RegisterWrites = {}
  /\ Len(Log) = 2
  /\ last.ret.tag = "Ok"
  /\ handle = "Conversion"
  /\ C23_PowerBits(dev.ctrl1) = 0

(***************************************************************************)
(* C24: what the chip's CTRL1 holds after into_standby, into_sleep or      *)
(* start_conversion returned an error.  As claimed (C24_Original) it holds *)
(* the value it held before the operation.  As the code has it, that is so *)
(* when the CTRL1 read or the CTRL1 write failed; when the final command   *)
(* write failed, CTRL1 holds the value with the new power bits, which the  *)
(* operation had written before (or which the register already held), and  *)
(* nothing is rolled back.                                                 *)
(***************************************************************************)
C24_Original ==
  (last.op \in TransitionOps /\ last.ret.tag = "Err") =>
    dev.ctrl1 = last.before.ctrl1

\* the exchange that failed is the final command write
C24_CommandFailed ==
  /\ Log[Len(Log)].kind = "write"
  /\ Len(Log[Len(Log)].out) = 1
  /\ Log[Len(Log)].res # 0

C24_FailureKeepsWrittenBits ==
  (last.op \in TransitionOps /\ last.ret.tag = "Err") =>
    /\ Len(Log) >= 1
    /\ Log[Len(Log)].res # 0
    /\ IF C24_CommandFailed
       THEN /\ dev.ctrl1 = Intended(last.op, last.arg, last.before.ctrl1)
            /\ (dev.ctrl1 \div 16) % 4 =
                 (CASE last.op = "into_standby" -> 2
                    [] last.op = "into_sleep" -> 1
                    [] last.op = "start_conversion" -> 0)
            /\ (dev.ctrl1 # last.before.ctrl1 <=> RegisterWrites # {})
       ELSE /\ dev.ctrl1 = last.before.ctrl1
            /\ Len(Log) <= 2
    /\ \A i \in RegisterWrites : i = 2
    /\ Len(Log) <= 3

C24_Witness ==
  /\ last.op = "into_sleep"
  /\ last.before.ctrl1 = 128 + 32 + 4
  /\ Len(Log) = 3
  /\ Log[2].out = <<194, 128 + 16 + 4>>
  /\ Log[2].res = 0
  /\ Log[3].out = <<144>>
  /\ Log[3].res # 0
  /\ last.ret.tag = "Err"
  /\ dev.ctrl1 = 128 + 16 + 4

====
